---- MODULE Spec2Model ----
(***************************************************************************)
(* Exam-timetable construction of Bashar199/examschedule.                  *)
(*                                                                         *)
(* Two script variants are modelled side by side:                          *)
(*   variant = "root" : src/scheduleGenerator.py          (date only)      *)
(*   variant = "fake" : src/fakeData/scheduleGenerator.py (date, time slot)*)
(*                                                                         *)
(* Dates are day ordinals counted from Monday 2025-05-19 (ordinal 0), so   *)
(* that weekday(d) = d % 7 with Monday = 0 as in datetime.date.weekday().  *)
(* Course codes and student ids are positive integers; their order stands  *)
(* for the lexicographic order of the strings of the program.              *)
(***************************************************************************)
EXTENDS Integers, Sequences, FiniteSets, TLC

VARIABLES
    variant,                 \* which script runs
    all_course_codes,        \* list of requested course codes
    student_courses,         \* student id (1..n) -> list of course codes
    start_date, end_date,    \* SPECIFIC_START_DATE / SPECIFIC_END_DATE
    skip_weekends,           \* SCHEDULING['skip_weekends']
    MIN_DAYS_BETWEEN_EXAMS,  \* SCHEDULING['min_days_between_exams']
    no_same_day_exams,       \* SCHEDULING['no_same_day_exams']
    EXAM_TIME_SLOTS,         \* SCHEDULING['time_slots'] (fake variant)
    pc,                      \* position of main / the scheduler
    api_calls,               \* number of requests.post calls made
    api_outcome,             \* what the remote call produced
    local_runs,              \* number of generate_schedule_locally calls
    sorted_courses,          \* scheduling order of the greedy scheduler
    available,               \* slot space (available_dates / available_datetimes)
    course_idx,              \* index in sorted_courses of the next course
    schedule,                \* list of schedule rows built by the scheduler
    course_dates,            \* course -> committed slot
    student_exam_dates,      \* student -> list of committed slots
    exams_per_day,           \* date -> number of courses committed
    unscheduled_courses,     \* list of courses without a slot
    ret,                     \* tuple returned to main by the schedule source
    schedule_data,           \* the response object held by main (or None)
    calendar,                \* student_exam_dates as held by main
    course_map,              \* course_dates as held by main
    final_conflicts,         \* output of the conflict verifier
    verifier_runs,           \* number of check_final_schedule_conflicts calls
    exported,                \* rows written by save_schedule_to_csv (or None)
    report,                  \* summary report written by main (or None)
    twin,                    \* a first scheduler run kept for a replay
    course_conflicts,        \* list returned by analyze_course_conflicts
    simple                   \* locals of generate_simple_schedule

inputs == <<variant, all_course_codes, student_courses, start_date, end_date,
            skip_weekends, MIN_DAYS_BETWEEN_EXAMS, no_same_day_exams,
            EXAM_TIME_SLOTS>>
remote == <<api_calls, api_outcome, local_runs>>
greedy == <<sorted_courses, available, course_idx, schedule, course_dates,
            student_exam_dates, exams_per_day, unscheduled_courses>>
outputs == <<ret, schedule_data, calendar, course_map, final_conflicts,
             verifier_runs, exported, report>>
extra == <<twin, course_conflicts, simple>>
vars == <<inputs, pc, remote, greedy, outputs, extra>>

(***************************************************************************)
(* Bounds of the model.                                                    *)
(***************************************************************************)
NumStudents == 2      \* most students
FirstDay == 12        \* first day of the window (Saturday 2025-05-31)
LastDay == 14         \* latest last day of the window (Monday 2025-06-02)
MaxGap == 2           \* largest min_days_between_exams
NumTimeSlots == 1     \* configured time slots per day
MaxSize == 8          \* courses + slot units of the window + enrollment records
MaxRemoteRows == 2    \* courses, and rows less one, of a schedule given to the verifier
NumAnalyzed == 3      \* courses of an enrollment given to the conflict analyzer

(***************************************************************************)
(* Program constants.                                                      *)
(***************************************************************************)
MAX_EXAMS_PER_DAY == 5
TopConflicts == 50

\* enough courses to overflow one day, and the longest window
MaxCourses == MAX_EXAMS_PER_DAY + 1
MaxSlots == LastDay - FirstDay + 1

\* Python's None: an optional value is the empty tuple or a one-element tuple
None == <<>>
Some(x) == <<x>>
IsNone(v) == Len(v) = 0
Val(v) == v[1]

NoTimeSlot == "none"
NoOutcome == "none"

\* no first run is kept
NoTwin == [run |-> 0, draws |-> <<>>, first |-> <<>>]

\* generate_simple_schedule is not running
NoSimple == <<>>

(***************************************************************************)
(* Sequence helpers.                                                       *)
(***************************************************************************)
Range(s) == {s[i] : i \in DOMAIN s}

InList(x, s) == \E i \in DOMAIN s : s[i] = x

RECURSIVE SumSeq(_)
SumSeq(s) == IF s = <<>> THEN 0 ELSE Head(s) + SumSeq(Tail(s))

RECURSIVE Concat(_)
Concat(ss) == IF ss = <<>> THEN <<>> ELSE Head(ss) \o Concat(Tail(ss))

Max(S) == CHOOSE x \in S : \A y \in S : y <= x
Min(S) == CHOOSE x \in S : \A y \in S : x <= y
Abs(x) == IF x < 0 THEN -x ELSE x

\* The ascending list of a finite set of integers.
RECURSIVE AscSeq(_)
AscSeq(S) == IF S = {} THEN <<>> ELSE <<Min(S)>> \o AscSeq(S \ {Min(S)})

\* every order random.shuffle can leave a list in
Shuffles(s) ==
    LET orders == {p \in [DOMAIN s -> DOMAIN s] :
                    \A i, j \in DOMAIN s : i # j => p[i] # p[j]}
    IN {[i \in DOMAIN s |-> s[p[i]]] : p \in orders}

\* dict access with a default, and the key set after a defaultdict read
Get(d, k, default) == IF k \in DOMAIN d THEN d[k] ELSE default
Touch(d, keys, default) ==
    [k \in DOMAIN d \cup keys |-> IF k \in DOMAIN d THEN d[k] ELSE default]

\* sorted(xs, key=Key, reverse=True): descending by key, equal keys keep
\* their input order (Python's sort is stable, also with reverse=True)
RECURSIVE SortKeyed(_)
SortKeyed(kx) ==
    IF kx = <<>> THEN <<>>
    ELSE LET best == Max({kx[i][1] : i \in DOMAIN kx})
             k == Min({i \in DOMAIN kx : kx[i][1] = best})
             rest == [i \in 1..(Len(kx) - 1) |-> IF i < k THEN kx[i] ELSE kx[i + 1]]
         IN <<kx[k][2]>> \o SortKeyed(rest)

SortedDesc(xs, Key(_)) == SortKeyed([i \in DOMAIN xs |-> <<Key(xs[i]), xs[i]>>])

(***************************************************************************)
(* Dates.                                                                  *)
(***************************************************************************)
weekday(d) == d % 7

\* date.strftime("%Y-%m-%d"): the text is modelled by its three fields
strftime(d) ==
    IF 19 + d <= 31 THEN <<2025, 5, 19 + d>>
    ELSE <<2025, 6, 19 + d - 31>>

\* datetime.strptime(text, "%Y-%m-%d").date() raises ValueError on other texts
ValidDateText(t) ==
    /\ t[1] = 2025
    /\ \/ t[2] = 5 /\ t[3] \in 1..31
       \/ t[2] = 6 /\ t[3] \in 1..30

strptime(t) == IF t[2] = 5 THEN t[3] - 19 ELSE t[3] + 31 - 19

\* the order of two date texts as strings (zero padded, so field by field)
DateTextKey(t) == t[1] * 10000 + t[2] * 100 + t[3]

Slot(d, t) == [date |-> d, time_slot |-> t]

(***************************************************************************)
(* Conflict course_conflicts.                                                      *)
(***************************************************************************)
SortedAsc(xs) == SortedDesc(xs, LAMBDA x : 0 - x)

\* the pairs (courses[i], courses[j]), i < j, in loop order
PairList(courses) ==
    Concat([i \in DOMAIN courses |->
        [k \in 1..(Len(courses) - i) |-> <<courses[i], courses[i + k]>>]])

\* root: the student's list is sorted first; fake: each pair is put in order
StudentPairs(v, courses) ==
    IF v = "root" THEN PairList(SortedAsc(courses))
    ELSE LET ps == PairList(courses)
         IN [i \in DOMAIN ps |->
                IF ps[i][1] > ps[i][2] THEN <<ps[i][2], ps[i][1]>> ELSE ps[i]]

\* course_pairs[pair] += 1 over a list of pairs; items keep insertion order
RECURSIVE CountPairs(_, _)
CountPairs(pairs, items) ==
    IF pairs = <<>> THEN items
    ELSE LET p == Head(pairs)
             seen == \E i \in DOMAIN items : items[i][1] = p
             next == IF seen
                     THEN [i \in DOMAIN items |->
                            IF items[i][1] = p THEN <<p, items[i][2] + 1>> ELSE items[i]]
                     ELSE Append(items, <<p, 1>>)
         IN CountPairs(Tail(pairs), next)

\* analyze_course_conflicts: list of <<pair, count>>, highest count first
analyze_course_conflicts(v, students) ==
    LET all == Concat([s \in DOMAIN students |-> StudentPairs(v, students[s])])
    IN SortedDesc(CountPairs(all, <<>>), LAMBDA it : it[2])

\* prepare_data_for_api: the first 50 ranked pairs
conflict_analysis(v, students) ==
    LET ranked == analyze_course_conflicts(v, students)
    IN SubSeq(ranked, 1, IF Len(ranked) < TopConflicts THEN Len(ranked) ELSE TopConflicts)

(***************************************************************************)
(* Scheduling order.                                                       *)
(***************************************************************************)
\* root: number of students whose list holds the course (once per occurrence)
course_student_count(students, c) ==
    SumSeq([s \in DOMAIN students |->
        Cardinality({i \in DOMAIN students[s] : students[s][i] = c})])

\* fake: conflict_pairs[c] summed; conflict_pairs[c1][c2] = count is a dict
\* assignment, so a pair listed again overwrites
course_conflict_count(analysis, c) ==
    LET partners == {IF analysis[i][1][1] = c THEN analysis[i][1][2] ELSE analysis[i][1][1] :
                        i \in {j \in DOMAIN analysis : c \in {analysis[j][1][1], analysis[j][1][2]}}}
        last(o) == Max({i \in DOMAIN analysis :
                        {analysis[i][1][1], analysis[i][1][2]} = {c, o}})
    IN SumSeq([k \in 1..Cardinality(partners) |->
                analysis[last(AscSeq(partners)[k])][2]])

\* an ordering whose ties fall differently from one scheduler run to the next
SortedCoursesByRun(v, codes, students) ==
    LET xs == IF local_runs % 2 = 0 THEN codes
              ELSE [i \in DOMAIN codes |-> codes[Len(codes) + 1 - i]]
    IN IF v = "root"
       THEN SortedDesc(xs, LAMBDA c : course_student_count(students, c))
       ELSE SortedDesc(xs, LAMBDA c :
                course_conflict_count(conflict_analysis(v, students), c))

\* courses.sort(key=..., reverse=True): most enrolled (root) or most
\* conflicting (fake) first, ties in the order of the course list
SortedCourses(v, codes, students) ==
    IF v = "root"
    THEN SortedDesc(codes, LAMBDA c : course_student_count(students, c))
    ELSE SortedDesc(codes, LAMBDA c :
            course_conflict_count(conflict_analysis(v, students), c))

(***************************************************************************)
(* Slot space.                                                             *)
(***************************************************************************)
\* a window walk that keeps Saturdays and Sundays whatever the weekend rule
RECURSIVE WindowSlotsEveryDay(_, _, _, _, _)
WindowSlotsEveryDay(v, cur, last, skip, slots) ==
    IF cur > last THEN <<>>
    ELSE (IF v = "root" THEN <<Slot(cur, NoTimeSlot)>>
          ELSE [i \in DOMAIN slots |-> Slot(cur, slots[i])])
         \o WindowSlotsEveryDay(v, cur + 1, last, skip, slots)

\* a window walk that takes the day after the end date as well
RECURSIVE WindowSlotsPastEnd(_, _, _, _, _)
WindowSlotsPastEnd(v, cur, last, skip, slots) ==
    IF cur > last + 1 THEN <<>>
    ELSE (IF skip /\ weekday(cur) >= 5 THEN <<>>
          ELSE IF v = "root" THEN <<Slot(cur, NoTimeSlot)>>
          ELSE [i \in DOMAIN slots |-> Slot(cur, slots[i])])
         \o WindowSlotsPastEnd(v, cur + 1, last, skip, slots)

\* the dates of the window in order (each with every time slot in the fake
\* script), without Saturdays and Sundays when weekends are skipped
RECURSIVE WindowSlots(_, _, _, _, _)
WindowSlots(v, cur, last, skip, slots) ==
    IF cur > last THEN <<>>
    ELSE (IF skip /\ weekday(cur) >= 5 THEN <<>>
          ELSE IF v = "root" THEN <<Slot(cur, NoTimeSlot)>>
          ELSE [i \in DOMAIN slots |-> Slot(cur, slots[i])])
         \o WindowSlots(v, cur + 1, last, skip, slots)

(***************************************************************************)
(* Initial states: the inputs of one run.                                  *)
(***************************************************************************)
Enrolled(students) == SumSeq([s \in DOMAIN students |-> Len(students[s])])

CourseLists(n, room) ==
    {AscSeq(S) : S \in {T \in SUBSET (1..n) : T # {} /\ Cardinality(T) <= room}}

\* Every student of either script has at least one course: the root script
\* draws a non-empty sample of the courses for each student, the fake script
\* creates a student from an enrollment record.
Rosters(n, room) ==
    {st \in UNION {[1..k -> CourseLists(n, room)] : k \in 0..NumStudents} :
        Enrolled(st) <= room}

Init ==
    /\ variant \in {"root", "fake"}
    /\ all_course_codes \in {[i \in 1..n |-> i] : n \in 0..MaxCourses}
    /\ start_date = FirstDay
    /\ end_date \in (start_date - 1)..LastDay
    /\ skip_weekends \in BOOLEAN
    /\ EXAM_TIME_SLOTS \in IF variant = "root" THEN {<<>>}
                           ELSE {[i \in 1..NumTimeSlots |-> i]}
    /\ LET k == Len(WindowSlots(variant, start_date, end_date, FALSE, EXAM_TIME_SLOTS))
       IN /\ k <= MaxSlots
          /\ Len(all_course_codes) + k <= MaxSize
          /\ student_courses \in
                Rosters(Len(all_course_codes), MaxSize - Len(all_course_codes) - k)
    /\ MIN_DAYS_BETWEEN_EXAMS \in {1, MaxGap}
    /\ no_same_day_exams \in IF variant = "root" THEN {TRUE} ELSE BOOLEAN
    /\ pc = "main"
    /\ api_calls = 0
    /\ api_outcome = NoOutcome
    /\ local_runs = 0
    /\ sorted_courses = <<>>
    /\ available = <<>>
    /\ course_idx = 0
    /\ schedule = <<>>
    /\ course_dates = <<>>
    /\ student_exam_dates = <<>>
    /\ exams_per_day = <<>>
    /\ unscheduled_courses = <<>>
    /\ ret = <<>>
    /\ schedule_data = None
    /\ calendar = None
    /\ course_map = None
    /\ final_conflicts = <<>>
    /\ verifier_runs = 0
    /\ exported = None
    /\ report = None
    /\ twin = NoTwin
    /\ course_conflicts = <<>>
    /\ simple = NoSimple

(***************************************************************************)
(* The greedy scheduler: generate_schedule_locally.                        *)
(***************************************************************************)
StudentIds == [s \in DOMAIN student_courses |-> s]

\* a lookup that stops at the first student taking the course
course_students_first_only(course) ==
    LET taking == SelectSeq(StudentIds, LAMBDA s : InList(course, student_courses[s]))
    IN SubSeq(taking, 1, IF taking = <<>> THEN 0 ELSE 1)

\* the students whose course list holds the course, in dict order
course_students(course) ==
    SelectSeq(StudentIds, LAMBDA s : InList(course, student_courses[s]))

\* a capacity test that lets one course too many onto a day
DayFullAboveCap(d) == Get(exams_per_day, d, 0) > MAX_EXAMS_PER_DAY

\* the day already holds MAX_EXAMS_PER_DAY courses
DayFull(d) == Get(exams_per_day, d, 0) >= MAX_EXAMS_PER_DAY

\* a calendar test that looks at the day only and not at the minimum gap
StudentConflictSameDayOnly(s, d) ==
    LET exams == Get(student_exam_dates, s, <<>>)
        same_day == \E i \in DOMAIN exams : exams[i].date = d
    IN IF variant = "root" THEN same_day ELSE same_day /\ no_same_day_exams

\* a calendar test that also forbids a date exactly the minimum gap away
StudentConflictWithinGap(s, d) ==
    LET exams == Get(student_exam_dates, s, <<>>)
        same_day == \E i \in DOMAIN exams : exams[i].date = d
        too_close == \E i \in DOMAIN exams :
                        /\ 0 < Abs(d - exams[i].date)
                        /\ Abs(d - exams[i].date) <= MIN_DAYS_BETWEEN_EXAMS
    IN IF variant = "root" THEN same_day \/ too_close
       ELSE (same_day /\ no_same_day_exams) \/ too_close

\* the student's calendar forbids the date
StudentConflict(s, d) ==
    LET exams == Get(student_exam_dates, s, <<>>)
        same_day == \E i \in DOMAIN exams : exams[i].date = d
        too_close == \E i \in DOMAIN exams :
                        /\ 0 < Abs(d - exams[i].date)
                        /\ Abs(d - exams[i].date) < MIN_DAYS_BETWEEN_EXAMS
    IN IF variant = "root" THEN same_day \/ too_close
       ELSE (same_day /\ no_same_day_exams) \/ too_close

\* a scan that looks at the capacity of the day only
RejectedByCapOnly(course, slot) == DayFull(slot.date)

Rejected(course, slot) ==
    \/ DayFull(slot.date)
    \/ \E i \in DOMAIN course_students(course) :
            StudentConflict(course_students(course)[i], slot.date)

\* students whose defaultdict entry the scan of one slot reads (root): the
\* loop over the course's students stops at the first conflicting student
StudentsRead(course, slot) ==
    LET cs == course_students(course)
    IN {cs[i] : i \in {j \in DOMAIN cs :
                        \A h \in 1..(j - 1) : ~StudentConflict(cs[h], slot.date)}}

Row(course, slot) ==
    IF variant = "root"
    THEN [course_code |-> course, date |-> strftime(slot.date)]
    ELSE [course_code |-> course, date |-> strftime(slot.date),
          time_slot |-> slot.time_slot]

\* schedule.append(...) of one commit: the root script appends inside the
\* loop over the course's students, the fake script once per course
RowsOfCommit(course, slot) ==
    IF variant = "root"
    THEN [i \in DOMAIN course_students(course) |-> Row(course, slot)]
    ELSE <<Row(course, slot)>>

LocalBegin ==
    /\ pc = "local"
    /\ local_runs' = local_runs + 1
    /\ LET slots == WindowSlots(variant, start_date, end_date, skip_weekends,
                                EXAM_TIME_SLOTS)
           missing == variant = "root" /\
                      (all_course_codes = <<>> \/ student_courses = <<>>)
       IN IF missing \/ slots = <<>>
          THEN /\ ret' = IF variant = "root" THEN <<None, None, None>> ELSE <<None>>
               /\ pc' = "returned"
               /\ UNCHANGED <<sorted_courses, available, course_idx>>
          ELSE /\ sorted_courses' = SortedCourses(variant, all_course_codes, student_courses)
               /\ available' = slots
               /\ course_idx' = 1
               /\ pc' = "loop"
               /\ ret' = ret
    /\ UNCHANGED <<inputs, extra, api_calls, api_outcome, schedule, course_dates,
                   student_exam_dates, exams_per_day, unscheduled_courses,
                   schedule_data, calendar, course_map, final_conflicts,
                   verifier_runs, exported, report>>

\* one iteration of "for course in sorted_courses" once random.shuffle has
\* put the slots in the order dates_to_try: scan, commit
ScheduleWith(dates_to_try) ==
    /\ pc = "loop"
    /\ course_idx <= Len(sorted_courses)
    /\ LET course == sorted_courses[course_idx]
            cs == course_students(course)
            ok == {i \in DOMAIN dates_to_try : ~Rejected(course, dates_to_try[i])}
            last == IF ok = {} THEN Len(dates_to_try) ELSE Min(ok)
            read == {dates_to_try[i] : i \in 1..last}
            epd == Touch(exams_per_day, {sl.date : sl \in read}, 0)
            sed == IF variant = "root"
                   THEN Touch(student_exam_dates,
                              UNION {StudentsRead(course, sl) :
                                        sl \in {x \in read : ~DayFull(x.date)}},
                              <<>>)
                   ELSE student_exam_dates
        IN IF ok = {}
           THEN /\ unscheduled_courses' = Append(unscheduled_courses, course)
                /\ exams_per_day' = epd
                /\ student_exam_dates' = sed
                /\ UNCHANGED <<schedule, course_dates>>
           ELSE LET slot == dates_to_try[last]
                IN /\ course_dates' = (course :> slot) @@ course_dates
                   /\ exams_per_day' = [epd EXCEPT ![slot.date] = @ + 1]
                   /\ student_exam_dates' =
                        [s \in DOMAIN sed \cup Range(cs) |->
                            IF s \in Range(cs)
                            THEN Append(Get(sed, s, <<>>), slot)
                            ELSE sed[s]]
                   /\ schedule' = schedule \o RowsOfCommit(course, slot)
                   /\ UNCHANGED unscheduled_courses
    /\ course_idx' = course_idx + 1
    /\ UNCHANGED <<inputs, pc, remote, sorted_courses, available, outputs>>

\* one iteration of "for course in sorted_courses": shuffle, scan, commit
ScheduleCourse ==
    \E dates_to_try \in Shuffles(available) :
        ScheduleWith(dates_to_try) /\ UNCHANGED extra

(***************************************************************************)
(* Conflict verification.                                                  *)
(***************************************************************************)
SortedAscBy(xs, Key(_)) == SortKeyed([i \in DOMAIN xs |-> <<0 - Key(xs[i]), xs[i]>>])

\* a dict as its items in insertion order: {k: v for ...} keeps the first
\* position of a key and its last value
RECURSIVE DictItems(_, _)
DictItems(pairs, items) ==
    IF pairs = <<>> THEN items
    ELSE LET p == Head(pairs)
             next == IF \E i \in DOMAIN items : items[i][1] = p[1]
                     THEN [i \in DOMAIN items |->
                            IF items[i][1] = p[1] THEN p ELSE items[i]]
                     ELSE Append(items, p)
         IN DictItems(Tail(pairs), next)

\* course_dates.items() of the greedy scheduler: courses in commit order
CourseItems ==
    LET done == SelectSeq(sorted_courses, LAMBDA c : c \in DOMAIN course_dates)
    IN [i \in DOMAIN done |-> <<done[i], course_dates[done[i]]>>]

\* a lookup that takes every course of the date, the student's or not
CoursesOnDate(items, d, courses) ==
    LET hit == SelectSeq(items, LAMBDA it : it[2].date = d)
    IN [i \in DOMAIN hit |-> hit[i][1]]

\* [c for c, dt in course_dates.items() if dt == d and c in courses]
CoursesOn(items, d, courses) ==
    LET hit == SelectSeq(items, LAMBDA it : it[2].date = d /\ InList(it[1], courses))
    IN [i \in DOMAIN hit |-> hit[i][1]]

\* the records check_final_schedule_conflicts adds for one student
StudentGapConflicts(s, exams, items, courses) ==
    LET sorted_exam_dates == AscSeq({exams[i].date : i \in DOMAIN exams})
    IN Concat([i \in 1..(Len(sorted_exam_dates) - 1) |->
        LET date1 == sorted_exam_dates[i]
            date2 == sorted_exam_dates[i + 1]
            days_diff == date2 - date1
            courses1 == CoursesOn(items, date1, courses)
            courses2 == CoursesOn(items, date2, courses)
        IN IF /\ 0 < days_diff
              /\ days_diff < MIN_DAYS_BETWEEN_EXAMS
              /\ (courses1 # <<>> \/ courses2 # <<>>)
           THEN <<[type |-> "Insufficient Days Conflict",
                   student_id |-> s,
                   date1 |-> strftime(date1),
                   date2 |-> strftime(date2),
                   days_between |-> days_diff,
                   exams |-> courses1 \o courses2]>>
           ELSE <<>>])

\* a verifier that reports on its first call only
check_final_schedule_conflictsOnce(sed, items, sc) ==
    IF verifier_runs > 0 \/ DOMAIN sed = {} \/ items = <<>> \/ sc = <<>> THEN <<>>
    ELSE LET ids == AscSeq(DOMAIN sed)
         IN Concat([k \in DOMAIN ids |->
                StudentGapConflicts(ids[k], sed[ids[k]], items, Get(sc, ids[k], <<>>))])

\* check_final_schedule_conflicts(student_exam_dates, course_dates, student_courses);
\* students are visited in ascending id order
check_final_schedule_conflicts(sed, items, sc) ==
    IF DOMAIN sed = {} \/ items = <<>> \/ sc = <<>> THEN <<>>
    ELSE LET ids == AscSeq(DOMAIN sed)
         IN Concat([k \in DOMAIN ids |->
                StudentGapConflicts(ids[k], sed[ids[k]], items, Get(sc, ids[k], <<>>))])

\* fake: next((s['course_code'] for s in schedule if date and time_slot match), None)
FirstCourseAt(rows, slot) ==
    LET hit == SelectSeq(rows, LAMBDA r :
                    strptime(r.date) = slot.date /\ r.time_slot = slot.time_slot)
    IN IF hit = <<>> THEN None ELSE Some(hit[1].course_code)

\* fake: the conflict pass at the end of generate_schedule_locally, one student
InlineStudentConflicts(s, exams, rows) ==
    LET sorted_exams == SortedAscBy(exams, LAMBDA e : e.date)
        pairs == 1..(Len(sorted_exams) - 1)
        c1(i) == FirstCourseAt(rows, sorted_exams[i])
        c2(i) == FirstCourseAt(rows, sorted_exams[i + 1])
        same_day == Concat([i \in pairs |->
            IF /\ sorted_exams[i].date = sorted_exams[i + 1].date
               /\ no_same_day_exams
               /\ ~IsNone(c1(i)) /\ ~IsNone(c2(i))
            THEN <<[type |-> "Same Day Conflict",
                    student_id |-> s,
                    date |-> strftime(sorted_exams[i].date),
                    exams |-> <<Val(c1(i)), Val(c2(i))>>]>>
            ELSE <<>>])
        too_close == Concat([i \in pairs |->
            LET days_diff == sorted_exams[i + 1].date - sorted_exams[i].date
            IN IF /\ 0 <= days_diff
                  /\ days_diff < MIN_DAYS_BETWEEN_EXAMS
                  /\ ~IsNone(c1(i)) /\ ~IsNone(c2(i))
               THEN <<[type |-> "Insufficient Days Conflict",
                       student_id |-> s,
                       date1 |-> strftime(sorted_exams[i].date),
                       date2 |-> strftime(sorted_exams[i + 1].date),
                       days_between |-> days_diff,
                       exams |-> <<Val(c1(i)), Val(c2(i))>>]>>
               ELSE <<>>])
    IN same_day \o too_close

InlineConflicts(sed, rows) ==
    LET ids == AscSeq(DOMAIN sed)
    IN Concat([k \in DOMAIN ids |-> InlineStudentConflicts(ids[k], sed[ids[k]], rows)])

\* a rebuild that gives every student the date of every row, enrolled or not
build_student_exam_dates_of_all_rows(rows, sc) ==
    LET good == SelectSeq(rows, LAMBDA r : ValidDateText(r.date))
        dates(s) == [i \in DOMAIN good |-> Slot(strptime(good[i].date), NoTimeSlot)]
        keys == {s \in DOMAIN sc : dates(s) # <<>>}
    IN [s \in keys |-> SortedAscBy(dates(s), LAMBDA e : e.date)]

\* build_student_exam_dates_from_schedule(schedule_list, students_full_details)
build_student_exam_dates_from_schedule(rows, sc) ==
    LET good == SelectSeq(rows, LAMBDA r : ValidDateText(r.date))
        dates(s) == LET mine == SelectSeq(good, LAMBDA r : InList(r.course_code, sc[s]))
                    IN [i \in DOMAIN mine |-> Slot(strptime(mine[i].date), NoTimeSlot)]
        keys == {s \in DOMAIN sc : dates(s) # <<>>}
    IN [s \in keys |-> SortedAscBy(dates(s), LAMBDA e : e.date)]

(***************************************************************************)
(* End of generate_schedule_locally: statistics and the response object.   *)
(***************************************************************************)
Issue(course) == [course |-> course, text |-> "could not be scheduled"]

TotalDays(rows) ==
    LET scheduled_dates == {strptime(rows[i].date) : i \in DOMAIN rows}
    IN IF scheduled_dates = {} THEN 0
       ELSE Max(scheduled_dates) - Min(scheduled_dates) + 1

Response ==
    LET conflicts == IF variant = "root" THEN <<>>
                     ELSE InlineConflicts(student_exam_dates, schedule)
        statistics ==
            [total_courses_requested |-> Len(all_course_codes),
             total_courses_scheduled |-> Len(schedule),
             total_scheduling_days_used |-> TotalDays(schedule),
             total_students |-> Len(student_courses),
             unresolved_student_conflicts |-> Len(conflicts),
             courses_not_scheduled |-> Len(unscheduled_courses)]
        issues == [i \in DOMAIN unscheduled_courses |-> Issue(unscheduled_courses[i])]
    IN IF variant = "root"
       THEN [schedule |-> schedule, statistics |-> statistics, issues |-> issues]
       ELSE [schedule |-> schedule, statistics |-> statistics, issues |-> issues,
             conflicts |-> conflicts]

\* a return taken as soon as the last course is reached, before its turn
LocalEndEarly ==
    /\ pc = "loop"
    /\ course_idx >= Len(sorted_courses)
    /\ ret' = IF variant = "root"
              THEN <<Some(Response), Some(student_exam_dates), Some(CourseItems)>>
              ELSE <<Some(Response)>>
    /\ pc' = "returned"
    /\ UNCHANGED <<inputs, extra, remote, greedy, schedule_data, calendar, course_map,
                   final_conflicts, verifier_runs, exported, report>>

\* the course loop is over: statistics, response, return
LocalEnd ==
    /\ pc = "loop"
    /\ course_idx > Len(sorted_courses)
    /\ ret' = IF variant = "root"
              THEN <<Some(Response), Some(student_exam_dates), Some(CourseItems)>>
              ELSE <<Some(Response)>>
    /\ pc' = "returned"
    /\ UNCHANGED <<inputs, extra, remote, greedy, schedule_data, calendar, course_map,
                   final_conflicts, verifier_runs, exported, report>>

(***************************************************************************)
(* The remote suggestion service: call_deepseek_api.                       *)
(***************************************************************************)
\* a handler set without the JSONDecodeError branch
ApiFailuresRequestOnly == {"request_exception"}

\* RequestException (timeout, connection or HTTP error) and JSONDecodeError
ApiFailures == {"request_exception", "json_decode_error"}
ApiOutcomes == {"request_exception", "json_decode_error", "wrong_shape", "parsed"}

\* schedules a parsable response can carry: the first two requested courses,
\* the first on the first day of the window and the second on the same or
\* the next day
RemoteSchedules ==
    LET m == Min({Len(all_course_codes), 2})
    IN {[i \in 1..m |->
            IF variant = "root"
            THEN [course_code |-> all_course_codes[i], date |-> strftime(f[i])]
            ELSE [course_code |-> all_course_codes[i], date |-> strftime(f[i]),
                  time_slot |-> EXAM_TIME_SLOTS[1]]] :
        f \in {g \in [1..m -> {start_date, start_date + 1}] :
                m > 0 => g[1] = start_date}}

RemoteResponse(rows) ==
    [schedule |-> rows,
     statistics |-> [total_courses_requested |-> Len(all_course_codes),
                     total_courses_scheduled |-> Len(rows)],
     issues |-> <<>>]

\* a JSON object that is not of the required shape
WrongShape == [error |-> "no schedule"]

\* what call_deepseek_api returns when the response parses as JSON
ApiReturn(data) ==
    IF variant = "root"
    THEN LET schedule_list == IF "schedule" \in DOMAIN data THEN data.schedule ELSE <<>>
         IN <<Some(data),
              Some(build_student_exam_dates_from_schedule(schedule_list, student_courses))>>
    ELSE <<Some(data)>>

\* main up to the choice of the schedule source
Main ==
    /\ pc = "main"
    /\ IF all_course_codes = <<>> \/ student_courses = <<>>
       THEN pc' = "failed"
       ELSE \E use_api \in BOOLEAN : pc' = IF use_api THEN "request" ELSE "local"
    /\ UNCHANGED <<inputs, extra, remote, greedy, outputs>>

\* requests.post and the handling of its result
Request ==
    /\ pc = "request"
    /\ api_calls' = api_calls + 1
    /\ \E outcome \in ApiOutcomes :
        /\ api_outcome' = outcome
        /\ IF outcome \in ApiFailures
           THEN pc' = "local" /\ ret' = ret
           ELSE /\ pc' = "returned"
                /\ IF outcome = "wrong_shape"
                   THEN ret' = ApiReturn(WrongShape)
                   ELSE \E rows \in RemoteSchedules :
                            ret' = ApiReturn(RemoteResponse(rows))
    /\ UNCHANGED <<inputs, extra, local_runs, greedy, schedule_data, calendar, course_map,
                   final_conflicts, verifier_runs, exported, report>>

(***************************************************************************)
(* main after the schedule source has returned.                            *)
(***************************************************************************)
\* {item['course_code']: strptime(item['date']) for item in schedule}
RebuiltCourseItems(rows) ==
    DictItems([i \in DOMAIN rows |->
                <<rows[i].course_code, Slot(strptime(rows[i].date), NoTimeSlot)>>], <<>>)

MainReceive ==
    /\ pc = "returned"
    /\ IF variant = "root"
       THEN IF Len(ret) # 3
            THEN \* unpacking two values into three names raises ValueError
                 /\ pc' = "crashed"
                 /\ UNCHANGED <<schedule_data, calendar, course_map>>
            ELSE LET cd == IF /\ api_calls > 0
                              /\ ~IsNone(ret[1])
                              /\ "schedule" \in DOMAIN Val(ret[1])
                              /\ IsNone(ret[3])
                           THEN Some(RebuiltCourseItems(Val(ret[1]).schedule))
                           ELSE ret[3]
                     bad == \/ IsNone(ret[1])
                            \/ "schedule" \notin DOMAIN Val(ret[1])
                            \/ IsNone(ret[2])
                            \/ IsNone(cd)
                 IN /\ schedule_data' = ret[1]
                    /\ calendar' = ret[2]
                    /\ course_map' = cd
                    /\ pc' = IF bad THEN "failed" ELSE "generated"
       ELSE /\ schedule_data' = ret[1]
            /\ pc' = IF IsNone(ret[1]) THEN "failed" ELSE "generated"
            /\ UNCHANGED <<calendar, course_map>>
    /\ UNCHANGED <<inputs, extra, remote, greedy, ret, final_conflicts, verifier_runs,
                   exported, report>>

\* a conflict check that puts the calendar in the sorted, per-row form of
\* build_student_exam_dates_from_schedule before reading it
MainVerifyRebuilding ==
    /\ pc = "generated"
    /\ variant = "root"
    /\ LET found == check_final_schedule_conflicts(Val(calendar), Val(course_map),
                                                  student_courses)
           data == Val(schedule_data)
       IN /\ final_conflicts' = found
          /\ schedule_data' =
                Some([final_conflicts |-> found] @@
                     [data EXCEPT !.statistics.unresolved_student_conflicts = Len(found)])
          /\ calendar' = Some(build_student_exam_dates_from_schedule(
                                data.schedule, student_courses))
    /\ verifier_runs' = verifier_runs + 1
    /\ pc' = "checked"
    /\ UNCHANGED <<inputs, extra, remote, greedy, ret, course_map, exported, report>>

\* root: the final conflict check of main
MainVerify ==
    /\ pc = "generated"
    /\ variant = "root"
    /\ LET found == check_final_schedule_conflicts(Val(calendar), Val(course_map),
                                                  student_courses)
           data == Val(schedule_data)
       IN /\ final_conflicts' = found
          /\ schedule_data' =
                Some([final_conflicts |-> found] @@
                     [data EXCEPT !.statistics.unresolved_student_conflicts = Len(found)])
    /\ verifier_runs' = verifier_runs + 1
    /\ pc' = "checked"
    /\ UNCHANGED <<inputs, extra, remote, greedy, ret, calendar, course_map, exported, report>>

\* save_schedule_to_csv: rows in date order (fake: date, then time slot)
CsvRows(rows) ==
    IF variant = "root"
    THEN LET sorted_schedule == SortedAscBy(rows, LAMBDA r : DateTextKey(r.date))
         IN [i \in DOMAIN sorted_schedule |->
                [date |-> sorted_schedule[i].date,
                 course_code |-> sorted_schedule[i].course_code,
                 note |-> ""]]
    ELSE LET by_slot == SortedAscBy(rows, LAMBDA r : r.time_slot)
             sorted_schedule == SortedAscBy(by_slot, LAMBDA r : DateTextKey(r.date))
         IN [i \in DOMAIN sorted_schedule |->
                [date |-> sorted_schedule[i].date,
                 time_slot |-> sorted_schedule[i].time_slot,
                 course_code |-> sorted_schedule[i].course_code,
                 note |-> ""]]

\* generate_summary_report (root)
\* "Busiest Day": exams_per_date_count has one count per schedule row,
\* students_per_date the students taking a course of a row of the date;
\* max(d, key=d.get) is the first date, in order of first appearance, with
\* the largest count. None stands for the text "N/A".
BusiestDay(rows) ==
    LET dates == [i \in DOMAIN rows |-> strptime(rows[i].date)]
        count(d) == Cardinality({i \in DOMAIN rows : dates[i] = d})
        most == Max({count(dates[i]) : i \in DOMAIN rows})
        first == Min({i \in DOMAIN rows : count(dates[i]) = most})
        busiest_day_date == dates[first]
        students_per_date ==
            {s \in DOMAIN student_courses :
                \E i \in DOMAIN rows :
                    /\ dates[i] = busiest_day_date
                    /\ InList(rows[i].course_code, student_courses[s])}
    IN IF rows = <<>> THEN None
       ELSE Some([date |-> strftime(busiest_day_date),
                  exams |-> most,
                  students |-> Cardinality(students_per_date)])

SummaryReport(rows, conflicts) ==
    [total_students |-> Len(student_courses),
     total_exams_scheduled |-> Len(rows),
     busiest_day |-> BusiestDay(rows),
     conflicted_students |->
        Cardinality({conflicts[i].student_id : i \in DOMAIN conflicts}),
     same_day_students |->
        Cardinality({conflicts[i].student_id :
            i \in {j \in DOMAIN conflicts : conflicts[j].type = "Same Day Conflict"}})]

\* the rest of main: the CSV export and, in the root script, the report
MainExport ==
    /\ \/ pc = "checked"
       \/ pc = "generated" /\ variant = "fake"
    /\ LET data == Val(schedule_data)
       IN IF "schedule" \notin DOMAIN data
          THEN UNCHANGED <<exported, report, schedule_data>>
          ELSE /\ exported' = Some(CsvRows(data.schedule))
               /\ schedule_data' =
                    Some([data EXCEPT !.schedule =
                            [i \in DOMAIN data.schedule |->
                                [note |-> ""] @@ data.schedule[i]]])
               /\ report' = IF variant = "root"
                            THEN Some(SummaryReport(data.schedule, final_conflicts))
                            ELSE report
    /\ pc' = "done"
    /\ UNCHANGED <<inputs, extra, remote, greedy, ret, calendar, course_map,
                   final_conflicts, verifier_runs>>

Next ==
    \/ Main
    \/ Request
    \/ LocalBegin
    \/ ScheduleCourse
    \/ LocalEnd
    \/ MainReceive
    \/ MainVerify
    \/ MainExport

Spec == Init /\ [][Next]_vars

(***************************************************************************)
(* The conflict verifier applied to a schedule that did not come from the  *)
(* greedy scheduler: the path of a parsed remote schedule through          *)
(* call_deepseek_api and main of the root script, entered after the        *)
(* response has been parsed.                                               *)
(***************************************************************************)
\* schedule rows and enrollment records of one input of the verifier
VerifierSize == MaxSize \div 2

ExternalRows(room) ==
    LET kinds == {[course_code |-> c, date |-> strftime(d)] :
                    c \in 1..MaxRemoteRows, d \in FirstDay..LastDay}
    IN UNION {[1..n -> kinds] : n \in 0..Min({room, MaxRemoteRows + 1})}

InitVerifier ==
    /\ variant = "root"
    /\ all_course_codes = [i \in 1..MaxRemoteRows |-> i]
    /\ student_courses \in Rosters(MaxRemoteRows, VerifierSize)
    /\ start_date = FirstDay
    /\ end_date = LastDay
    /\ skip_weekends = FALSE
    /\ EXAM_TIME_SLOTS = <<>>
    /\ MIN_DAYS_BETWEEN_EXAMS \in {1, MaxGap}
    /\ no_same_day_exams = TRUE
    /\ pc = "parsed"
    /\ api_calls = 1
    /\ api_outcome = "parsed"
    /\ local_runs = 0
    /\ sorted_courses = <<>>
    /\ available = <<>>
    /\ course_idx = 0
    /\ schedule = <<>>
    /\ course_dates = <<>>
    /\ student_exam_dates = <<>>
    /\ exams_per_day = <<>>
    /\ unscheduled_courses = <<>>
    /\ ret = <<>>
    /\ schedule_data \in {Some(RemoteResponse(rows)) :
                            rows \in ExternalRows(VerifierSize - Enrolled(student_courses))}
    /\ calendar = None
    /\ course_map = None
    /\ final_conflicts = <<>>
    /\ verifier_runs = 0
    /\ exported = None
    /\ report = None
    /\ twin = NoTwin
    /\ course_conflicts = <<>>
    /\ simple = NoSimple

\* the calendar and the course dates are rebuilt from the schedule list
Rebuild ==
    /\ pc = "parsed"
    /\ calendar' = Some(build_student_exam_dates_from_schedule(
                            Val(schedule_data).schedule, student_courses))
    /\ course_map' = Some(RebuiltCourseItems(Val(schedule_data).schedule))
    /\ pc' = "generated"
    /\ UNCHANGED <<inputs, extra, remote, greedy, ret, schedule_data, final_conflicts,
                   verifier_runs, exported, report>>

\* check_final_schedule_conflicts called once more on the arguments of the
\* first call; the first list stays in schedule_data['final_conflicts']
VerifyAgain ==
    /\ pc = "checked"
    /\ final_conflicts' = check_final_schedule_conflicts(Val(calendar), Val(course_map),
                                                         student_courses)
    /\ verifier_runs' = verifier_runs + 1
    /\ pc' = "rechecked"
    /\ UNCHANGED <<inputs, extra, remote, greedy, ret, schedule_data, calendar,
                   course_map, exported, report>>

NextVerifier ==
    \/ Rebuild
    \/ MainVerify
    \/ VerifyAgain

SpecVerifier == InitVerifier /\ [][NextVerifier]_vars

(***************************************************************************)
(* Properties of the greedy scheduler.                                     *)
(***************************************************************************)
Takes(s, c) == InList(c, student_courses[s])

\* two different committed courses that one student takes
SharedPairs ==
    {t \in (DOMAIN student_courses) \X (DOMAIN course_dates) \X (DOMAIN course_dates) :
        t[2] # t[3] /\ Takes(t[1], t[2]) /\ Takes(t[1], t[3])}

DaysApart(c1, c2) == Abs(course_dates[c1].date - course_dates[c2].date)

\* C1 as stated: in every state of the greedy scheduler and in its result, any
\* two committed courses taken by one student lie on different dates, and the
\* dates are not closer than MIN_DAYS_BETWEEN_EXAMS.
C1_NoClashUnconditional ==
    \A t \in SharedPairs :
        /\ DaysApart(t[2], t[3]) # 0
        /\ ~(0 < DaysApart(t[2], t[3]) /\ DaysApart(t[2], t[3]) < MIN_DAYS_BETWEEN_EXAMS)

\* C1 amended: two committed courses of one student are never a positive
\* number of days below MIN_DAYS_BETWEEN_EXAMS apart, and they lie on
\* different dates whenever the same-day rule is in force (always in the root
\* script, under no_same_day_exams in the fake script).
C1_NoStudentClash ==
    \A t \in SharedPairs :
        /\ (variant = "root" \/ no_same_day_exams) => DaysApart(t[2], t[3]) # 0
        /\ ~(0 < DaysApart(t[2], t[3]) /\ DaysApart(t[2], t[3]) < MIN_DAYS_BETWEEN_EXAMS)

\* a student sits two committed courses exactly the minimum gap apart, the
\* gap being more than one day
C1_Witness ==
    /\ MIN_DAYS_BETWEEN_EXAMS > 1
    /\ \E t \in SharedPairs : DaysApart(t[2], t[3]) = MIN_DAYS_BETWEEN_EXAMS

\* C2: exams_per_day never exceeds MAX_EXAMS_PER_DAY on any date, and no date
\* holds more than MAX_EXAMS_PER_DAY committed courses (a date that is full is
\* never committed again).
C2_DayLoadWithinCap ==
    /\ \A d \in DOMAIN exams_per_day : exams_per_day[d] <= MAX_EXAMS_PER_DAY
    /\ \A d \in FirstDay..LastDay :
        Cardinality({c \in DOMAIN course_dates : course_dates[c].date = d})
            <= MAX_EXAMS_PER_DAY

\* a date is full and a further course found no slot
C2_Witness ==
    /\ \E d \in DOMAIN exams_per_day : exams_per_day[d] = MAX_EXAMS_PER_DAY
    /\ unscheduled_courses # <<>>

RowsOf(rows, c) == {i \in DOMAIN rows : rows[i].course_code = c}

\* C3 as stated: the schedule list holds every course at most once, and a
\* course has a row exactly when a date was committed for it, whatever the
\* number of students enrolled in it.
C3_OneRowPerScheduledCourse ==
    \A c \in Range(all_course_codes) :
        /\ Cardinality(RowsOf(schedule, c)) <= 1
        /\ (RowsOf(schedule, c) # {}) <=> (c \in DOMAIN course_dates)

\* C4 as stated: when the greedy scheduler has returned a result, every
\* requested course is in the schedule list or in the issues (reported as
\* unscheduled), and none is absent from both.
C4_EveryCourseAccounted ==
    (pc = "returned" /\ local_runs = 1 /\ ~IsNone(ret[1])) =>
        \A c \in Range(all_course_codes) :
            \/ RowsOf(Val(ret[1]).schedule, c) # {}
            \/ \E i \in DOMAIN Val(ret[1]).issues : Val(ret[1]).issues[i].course = c

(***************************************************************************)
(* Properties of verification, the remote service and the fallback.        *)
(***************************************************************************)
\* the greedy scheduler has handed back a schedule
GreedyReturned == pc = "returned" /\ local_runs = 1 /\ ~IsNone(ret[1])

\* what the root script's verifier says of the state of the greedy scheduler
GreedyVerdict ==
    check_final_schedule_conflicts(student_exam_dates, CourseItems, student_courses)

C6_RemoteVerifiedBeforeExport ==
    (api_outcome = "parsed" /\ (~IsNone(exported) \/ ~IsNone(report)))
        => verifier_runs > 0

\* the schedule list of the parsed remote response puts two different courses
\* of one student on one date
RemoteSameDay ==
    /\ api_outcome = "parsed"
    /\ ret # <<>>
    /\ LET rows == Val(ret[1]).schedule
       IN \E s \in DOMAIN student_courses : \E i, j \in DOMAIN rows :
            /\ rows[i].course_code # rows[j].course_code
            /\ Takes(s, rows[i].course_code)
            /\ Takes(s, rows[j].course_code)
            /\ rows[i].date = rows[j].date

\* C7 as stated: when the remote schedule holds a same-day conflict for some
\* student, the run ends with the greedy scheduler's schedule exported: the
\* remote schedule is discarded and the greedy scheduler has run.
C7_RemoteConflictFallsBack ==
    (RemoteSameDay /\ pc \in {"done", "crashed", "failed"}) =>
        /\ local_runs = 1
        /\ exported = Some(CsvRows(schedule))

FellBack == api_outcome \in {"request_exception", "json_decode_error"}

HeldRows == Val(schedule_data).schedule

\* C9 as stated: when the schedule given to the verifier puts two different
\* courses of a student on one date, the verifier's output holds a same-day
\* conflict record for that student that names the two courses.
C9_SameDayFlagged ==
    pc = "checked" =>
        \A s \in DOMAIN student_courses : \A i, j \in DOMAIN HeldRows :
            (/\ HeldRows[i].course_code # HeldRows[j].course_code
             /\ Takes(s, HeldRows[i].course_code)
             /\ Takes(s, HeldRows[j].course_code)
             /\ HeldRows[i].date = HeldRows[j].date)
            => \E k \in DOMAIN final_conflicts :
                /\ final_conflicts[k].type = "Same Day Conflict"
                /\ final_conflicts[k].student_id = s
                /\ {HeldRows[i].course_code, HeldRows[j].course_code}
                        \subseteq Range(final_conflicts[k].exams)

\* the dates on which the schedule list holds an exam of the student
ExamDatesOf(s) ==
    {strptime(HeldRows[i].date) :
        i \in {j \in DOMAIN HeldRows : Takes(s, HeldRows[j].course_code)}}

\* consecutive exam dates of the student closer than the minimum gap
TooClose(s, d1, d2) ==
    /\ d1 \in ExamDatesOf(s)
    /\ d2 \in ExamDatesOf(s)
    /\ d1 < d2
    /\ d2 - d1 < MIN_DAYS_BETWEEN_EXAMS
    /\ ~\E d \in ExamDatesOf(s) : d1 < d /\ d < d2

\* the student's courses the schedule list has on the date
SitsOn(s, d) ==
    {c \in Range(student_courses[s]) :
        \E i \in RowsOf(HeldRows, c) : strptime(HeldRows[i].date) = d}

\* the student's courses whose date, as the last row naming the course gives
\* it, is the date
RecordedOn(s, d) ==
    {c \in Range(student_courses[s]) :
        /\ RowsOf(HeldRows, c) # {}
        /\ strptime(HeldRows[Max(RowsOf(HeldRows, c))].date) = d}

GapRecords(s, d1, d2) ==
    {k \in DOMAIN final_conflicts :
        /\ final_conflicts[k].type = "Insufficient Days Conflict"
        /\ final_conflicts[k].student_id = s
        /\ final_conflicts[k].date1 = strftime(d1)
        /\ final_conflicts[k].date2 = strftime(d2)}

\* C10 as stated: for any schedule given to the verifier, the output holds an
\* insufficient-gap record for a student and two dates exactly when the dates
\* are consecutive exam dates of the student with 0 < d2 - d1 below the
\* minimum gap, and the record carries the courses the student sits on the
\* two dates.
C10_GapRecordedForEveryClosePair ==
    pc = "checked" =>
        \A s \in DOMAIN student_courses : \A d1, d2 \in FirstDay..LastDay :
            /\ (GapRecords(s, d1, d2) # {}) <=> TooClose(s, d1, d2)
            /\ \A k \in GapRecords(s, d1, d2) :
                    Range(final_conflicts[k].exams) = SitsOn(s, d1) \cup SitsOn(s, d2)

\* C10 amended: the output holds an insufficient-gap record for a student and
\* two dates exactly when the dates are consecutive exam dates of the student
\* with 0 < d2 - d1 below the minimum gap and at least one course of the
\* student has its recorded date (the date of the last row naming it) on one
\* of the two; there is one such record, it carries the gap and those
\* courses, and the verifier's output holds no record of another kind.
C10_GapRecordedWhenCoursesKnown ==
    pc = "checked" =>
        /\ \A s \in DOMAIN student_courses : \A d1, d2 \in FirstDay..LastDay :
            /\ (GapRecords(s, d1, d2) # {}) <=>
                    (TooClose(s, d1, d2) /\
                     RecordedOn(s, d1) \cup RecordedOn(s, d2) # {})
            /\ Cardinality(GapRecords(s, d1, d2)) <= 1
            /\ \A k \in GapRecords(s, d1, d2) :
                /\ final_conflicts[k].days_between = d2 - d1
                /\ Range(final_conflicts[k].exams) =
                        RecordedOn(s, d1) \cup RecordedOn(s, d2)
        /\ \A k \in DOMAIN final_conflicts :
                \E s \in DOMAIN student_courses : \E d1, d2 \in FirstDay..LastDay :
                    k \in GapRecords(s, d1, d2)

\* the verifier has reported a student with courses on two dates one day
\* apart under a minimum gap of two days
C10_Witness ==
    /\ pc = "checked"
    /\ MIN_DAYS_BETWEEN_EXAMS = 2
    /\ \E k \in DOMAIN final_conflicts :
        /\ final_conflicts[k].days_between = 1
        /\ Len(final_conflicts[k].exams) = 2

(***************************************************************************)
(* C11.  Empty slot space.                                                 *)
(***************************************************************************)
\* the dates of the window that the weekend rule leaves usable
UsableDays ==
    {d \in start_date..end_date : ~(skip_weekends /\ weekday(d) >= 5)}

\* every component of the value the scheduler returned is None
ReturnedNothing == ret # <<>> /\ \A i \in DOMAIN ret : IsNone(ret[i])

\* C11: when the window holds no usable date (it is inverted, or weekends are
\* skipped and it holds weekend days only), a run of the greedy scheduler
\* never enters its course loop, commits no course, creates no day-load and
\* no student-calendar entry, lists nothing as unscheduled, and returns only
\* None, so that main holds no schedule and exports nothing.
C11_EmptySlotSpaceIsError ==
    (local_runs > 0 /\ UsableDays = {}) =>
        /\ pc # "loop"
        /\ schedule = <<>>
        /\ course_dates = <<>>
        /\ exams_per_day = <<>>
        /\ student_exam_dates = <<>>
        /\ unscheduled_courses = <<>>
        /\ pc = "returned" => ReturnedNothing
        /\ pc \in {"returned", "failed"}
        /\ IsNone(schedule_data) /\ IsNone(exported)

\* the scheduler has run on a non-inverted window made of a weekend only
C11_Witness ==
    /\ local_runs > 0
    /\ pc = "returned"
    /\ skip_weekends
    /\ start_date < end_date
    /\ UsableDays = {}
    /\ all_course_codes # <<>>
    /\ student_courses # <<>>

(***************************************************************************)
(* Replay harness: the greedy scheduler run twice on one input, the second *)
(* run drawing the slot permutations the first run drew.                   *)
(***************************************************************************)
ReplaySize == MaxSize - 2

\* what a caller of generate_schedule_locally can observe of a finished run
RunResult == <<ret, schedule, unscheduled_courses, student_exam_dates>>

InitReplay ==
    /\ variant \in {"root", "fake"}
    /\ all_course_codes \in {[i \in 1..n |-> i] : n \in 1..MaxCourses}
    /\ start_date = FirstDay
    /\ end_date \in (start_date - 1)..LastDay
    /\ skip_weekends \in BOOLEAN
    /\ EXAM_TIME_SLOTS \in IF variant = "root" THEN {<<>>}
                           ELSE {[i \in 1..NumTimeSlots |-> i]}
    /\ LET k == Len(WindowSlots(variant, start_date, end_date, FALSE, EXAM_TIME_SLOTS))
       IN /\ Len(all_course_codes) + k <= ReplaySize
          /\ student_courses \in
                Rosters(Len(all_course_codes), ReplaySize - Len(all_course_codes) - k)
    /\ student_courses # <<>>
    /\ MIN_DAYS_BETWEEN_EXAMS \in {1, MaxGap}
    /\ no_same_day_exams \in IF variant = "root" THEN {TRUE} ELSE BOOLEAN
    /\ pc = "local"
    /\ api_calls = 0
    /\ api_outcome = NoOutcome
    /\ local_runs = 0
    /\ sorted_courses = <<>>
    /\ available = <<>>
    /\ course_idx = 0
    /\ schedule = <<>>
    /\ course_dates = <<>>
    /\ student_exam_dates = <<>>
    /\ exams_per_day = <<>>
    /\ unscheduled_courses = <<>>
    /\ ret = <<>>
    /\ schedule_data = None
    /\ calendar = None
    /\ course_map = None
    /\ final_conflicts = <<>>
    /\ verifier_runs = 0
    /\ exported = None
    /\ report = None
    /\ twin = [run |-> 1, draws |-> <<>>, first |-> <<>>]
    /\ course_conflicts = <<>>
    /\ simple = NoSimple

\* first run: one course, the permutation drawn for it is written down
RecordedCourse ==
    /\ twin.run = 1
    /\ \E dates_to_try \in Shuffles(available) :
        /\ ScheduleWith(dates_to_try)
        /\ twin' = [twin EXCEPT !.draws = Append(@, dates_to_try)]
    /\ UNCHANGED <<course_conflicts, simple>>

\* second run: one course, with the permutation the first run drew for it
ReplayedCourse ==
    /\ twin.run = 2
    /\ course_idx \in DOMAIN twin.draws
    /\ ScheduleWith(twin.draws[course_idx])
    /\ UNCHANGED extra

\* the first run has returned: keep its result and call the scheduler again
\* on the same input (the locals of the first call are gone)
RunAgain ==
    /\ pc = "returned"
    /\ twin.run = 1
    /\ twin' = [twin EXCEPT !.run = 2, !.first = RunResult]
    /\ pc' = "local"
    /\ ret' = <<>>
    /\ sorted_courses' = <<>>
    /\ available' = <<>>
    /\ course_idx' = 0
    /\ schedule' = <<>>
    /\ course_dates' = <<>>
    /\ student_exam_dates' = <<>>
    /\ exams_per_day' = <<>>
    /\ unscheduled_courses' = <<>>
    /\ UNCHANGED <<inputs, remote, schedule_data, calendar, course_map,
                   final_conflicts, verifier_runs, exported, report, course_conflicts,
                   simple>>

NextReplay ==
    \/ LocalBegin
    \/ RecordedCourse
    \/ ReplayedCourse
    \/ LocalEnd
    \/ RunAgain

SpecReplay == InitReplay /\ [][NextReplay]_vars

AnalyzerSize == MaxSize - 3

\* nothing of the scheduler, the remote call or main has run
NothingRun ==
    /\ api_calls = 0
    /\ api_outcome = NoOutcome
    /\ local_runs = 0
    /\ sorted_courses = <<>>
    /\ available = <<>>
    /\ course_idx = 0
    /\ schedule = <<>>
    /\ course_dates = <<>>
    /\ student_exam_dates = <<>>
    /\ exams_per_day = <<>>
    /\ unscheduled_courses = <<>>
    /\ ret = <<>>
    /\ schedule_data = None
    /\ calendar = None
    /\ course_map = None
    /\ final_conflicts = <<>>
    /\ verifier_runs = 0
    /\ exported = None
    /\ report = None

\* a student's course list: random.sample gives the root script distinct
\* courses in any order; the fake script appends one code per enrollment
\* record, in record order, a repeated record included
EnrollmentLists(v) ==
    LET all == UNION {[1..k -> 1..NumAnalyzed] : k \in 1..AnalyzerSize}
    IN IF v = "root"
       THEN {l \in all : \A i, j \in DOMAIN l : l[i] = l[j] => i = j}
       ELSE all

InitAnalyzer ==
    /\ variant \in {"root", "fake"}
    /\ all_course_codes = [i \in 1..NumAnalyzed |-> i]
    /\ student_courses \in
        {st \in UNION {[1..k -> EnrollmentLists(variant)] : k \in 0..NumStudents} :
            Enrolled(st) <= AnalyzerSize}
    /\ start_date = FirstDay
    /\ end_date = FirstDay
    /\ skip_weekends = FALSE
    /\ EXAM_TIME_SLOTS = <<>>
    /\ MIN_DAYS_BETWEEN_EXAMS = 1
    /\ no_same_day_exams = TRUE
    /\ pc = "analyze"
    /\ NothingRun
    /\ twin = NoTwin
    /\ course_conflicts = <<>>
    /\ simple = NoSimple

\* course_conflicts = analyze_course_conflicts(students)
Analyze ==
    /\ pc = "analyze"
    /\ course_conflicts' = analyze_course_conflicts(variant, student_courses)
    /\ pc' = "analyzed"
    /\ UNCHANGED <<inputs, twin, simple, remote, greedy, outputs>>

NextAnalyzer == Analyze

SpecAnalyzer == InitAnalyzer /\ [][NextAnalyzer]_vars

(***************************************************************************)
(* C14.  One entry per co-enrolled pair, counting its students.            *)
(***************************************************************************)
\* the students enrolled in both courses
EnrolledInBoth(a, b) ==
    {s \in DOMAIN student_courses :
        InList(a, student_courses[s]) /\ InList(b, student_courses[s])}

\* the positions of the analyzer's list that speak of the two courses
EntriesOf(a, b) ==
    {i \in DOMAIN course_conflicts : course_conflicts[i][1] \in {<<a, b>>, <<b, a>>}}

\* C14: for every enrollment, and for every two distinct courses a < b taken
\* together by at least one student, the list returned by
\* analyze_course_conflicts holds exactly one entry for the two courses, it
\* is keyed by the ordered pair (a, b), and its count is the number of
\* students enrolled in both.
C14_OneEntryPerPairCountingStudents ==
    pc = "analyzed" =>
        \A a, b \in 1..NumAnalyzed :
            (a < b /\ EnrolledInBoth(a, b) # {}) =>
                /\ Cardinality(EntriesOf(a, b)) = 1
                /\ \A i \in EntriesOf(a, b) :
                    /\ course_conflicts[i][1] = <<a, b>>
                    /\ course_conflicts[i][2] = Cardinality(EnrolledInBoth(a, b))

\* the same statement for course lists that name no course twice
C14_HoldsWithoutRepeats ==
    (\A s \in DOMAIN student_courses :
        \A i, j \in DOMAIN student_courses[s] :
            student_courses[s][i] = student_courses[s][j] => i = j)
    => C14_OneEntryPerPairCountingStudents

(***************************************************************************)
(* C15.  Order of the analyzer's list.                                     *)
(***************************************************************************)
\* lexicographic order of two course pairs
PairBefore(p, q) == p[1] < q[1] \/ (p[1] = q[1] /\ p[2] < q[2])

\* C15: the list returned by analyze_course_conflicts is in descending order
\* of count, and entries of equal count are in lexicographic order of their
\* pairs, whatever the order of the students.
C15_SortedByCountThenPair ==
    pc = "analyzed" =>
        \A i, j \in DOMAIN course_conflicts :
            i < j =>
                \/ course_conflicts[i][2] > course_conflicts[j][2]
                \/ /\ course_conflicts[i][2] = course_conflicts[j][2]
                   /\ PairBefore(course_conflicts[i][1], course_conflicts[j][1])

\* the part of it the sort key of the program decides: counts never rise
C15_CountsDescend ==
    pc = "analyzed" =>
        \A i, j \in DOMAIN course_conflicts :
            i < j => course_conflicts[i][2] >= course_conflicts[j][2]

(***************************************************************************)
(* C16.  Minimal feasible input.                                           *)
(***************************************************************************)
\* the minimum gap is one day and the window has a usable date per course
MinimalFeasible ==
    /\ MIN_DAYS_BETWEEN_EXAMS = 1
    /\ Cardinality(UsableDays) >= Len(all_course_codes)

\* C16: with a minimum gap of one day and at least as many usable dates as
\* courses, whatever permutations the scan draws, the greedy scheduler leaves
\* no course unscheduled, every course has a date when it returns, and in the
\* root script any two courses sharing a student lie on different dates (a
\* gap of at least one day).
C16_MinimalFeasibleAllScheduled ==
    (MinimalFeasible /\ local_runs > 0) =>
        /\ unscheduled_courses = <<>>
        /\ GreedyReturned =>
            /\ Range(all_course_codes) = DOMAIN course_dates
            /\ ret[1][1].statistics.courses_not_scheduled = 0
            /\ ret[1][1].issues = <<>>
        /\ variant = "root" => \A t \in SharedPairs : DaysApart(t[2], t[3]) >= 1

\* the root scheduler has returned on a window with exactly one usable date
\* per course, and a student takes two of the courses
C16_Witness ==
    /\ variant = "root"
    /\ MinimalFeasible
    /\ GreedyReturned
    /\ Cardinality(UsableDays) = Len(all_course_codes)
    /\ SharedPairs # {}

(***************************************************************************)
(* Overflow harness: the greedy scheduler on more courses than one day     *)
(* holds, no two of them sharing a student.                                *)
(***************************************************************************)
\* every course has a student of its own; up to NumStudents further students
\* each take one course
DisjointRosters(n) ==
    {[s \in 1..(n + Len(more)) |-> IF s <= n THEN <<s>> ELSE <<more[s - n]>>] :
        more \in UNION {[1..k -> 1..n] : k \in 0..NumStudents}}

InitOverflow ==
    /\ variant \in {"root", "fake"}
    /\ all_course_codes = [i \in 1..MaxCourses |-> i]
    /\ student_courses \in DisjointRosters(MaxCourses)
    /\ start_date = FirstDay
    /\ end_date \in FirstDay..(FirstDay + 2)
    /\ skip_weekends \in BOOLEAN
    /\ Cardinality({d \in start_date..end_date :
                        ~(skip_weekends /\ weekday(d) >= 5)}) = 1
    /\ EXAM_TIME_SLOTS \in IF variant = "root" THEN {<<>>}
                           ELSE {[i \in 1..NumTimeSlots |-> i]}
    /\ MIN_DAYS_BETWEEN_EXAMS \in {1, MaxGap}
    /\ no_same_day_exams \in IF variant = "root" THEN {TRUE} ELSE BOOLEAN
    /\ pc = "local"
    /\ NothingRun
    /\ twin = NoTwin
    /\ course_conflicts = <<>>
    /\ simple = NoSimple

NextOverflow ==
    \/ LocalBegin
    \/ ScheduleCourse
    \/ LocalEnd

SpecOverflow == InitOverflow /\ [][NextOverflow]_vars

(***************************************************************************)
(* C17.  Capacity overflow.                                                *)
(***************************************************************************)
\* no student takes two courses and every course has a student
DisjointNonEmpty ==
    /\ \A s \in DOMAIN student_courses : Len(student_courses[s]) = 1
    /\ \A c \in Range(all_course_codes) : \E s \in DOMAIN student_courses : Takes(s, c)

\* C17: N courses with pairwise disjoint non-empty student sets, a window
\* with exactly one usable day and a cap K < N: the returned schedule holds
\* exactly K courses, one row each, all on that day, the statistics say
\* total_courses_scheduled = K and courses_not_scheduled = N - K, and each of
\* the other N - K courses is unscheduled and named in an issue.
C17_OverflowCounts ==
    LET N == Len(all_course_codes)
        K == MAX_EXAMS_PER_DAY
        response == ret[1][1]
    IN (GreedyReturned /\ DisjointNonEmpty /\ Cardinality(UsableDays) = 1 /\ K < N) =>
        /\ Cardinality(DOMAIN course_dates) = K
        /\ \A c \in DOMAIN course_dates : course_dates[c].date \in UsableDays
        /\ Len(response.schedule) = K
        /\ \A c \in DOMAIN course_dates : Cardinality(RowsOf(response.schedule, c)) = 1
        /\ response.statistics.total_courses_scheduled = K
        /\ response.statistics.courses_not_scheduled = N - K
        /\ Len(unscheduled_courses) = N - K
        /\ Range(unscheduled_courses) = Range(all_course_codes) \ DOMAIN course_dates
        /\ Range(response.issues) = {Issue(c) : c \in Range(unscheduled_courses)}

\* the same statement where the schedule list has one row per course
C17_HoldsInFakeScript == variant = "fake" => C17_OverflowCounts

(***************************************************************************)
(* The run under fair scheduling: main is one sequential process, so a     *)
(* step that can be taken is eventually taken.                             *)
(***************************************************************************)
FairSize == MaxSize - 4

\* the inputs of Init up to a smaller size
InitFair ==
    /\ Init
    /\ Len(all_course_codes) + Cardinality(start_date..end_date)
            + Enrolled(student_courses) <= FairSize

SpecFair == InitFair /\ [][Next]_vars /\ WF_vars(Next)

(***************************************************************************)
(* C18.  A validated run reaches the report.                               *)
(***************************************************************************)
\* the input passes validation: courses, students and slot space non-empty
Validated ==
    /\ all_course_codes # <<>>
    /\ student_courses # <<>>
    /\ UsableDays # {}

\* C18: every run of the root script on a validated input eventually writes
\* the summary report, whether the schedule comes from the local scheduler
\* alone, from the remote service, or from the fallback after a remote
\* failure, and however many courses are unscheduled.
C18_ValidatedRunReports ==
    (variant = "root" /\ Validated) ~> ~IsNone(report)

\* what does hold: a finished run of the root script on a validated input
\* has written the report unless the remote service answered with JSON
C18_FinishedRunReportsUnlessRemoteAnswered ==
    (/\ variant = "root"
     /\ Validated
     /\ pc \in {"done", "failed", "crashed"}
     /\ api_outcome \notin {"parsed", "wrong_shape"}) => ~IsNone(report)

(***************************************************************************)
(* The simple generator: generate_simple_schedule of                       *)
(* src/simple_schedule_generator.py.  Its locals are the fields of simple; *)
(* students is student_courses, time slots are indices 0, 1, 2.            *)
(***************************************************************************)
SimpleTimeSlots == 3
AttemptDays == 30
SimpleSize == MaxSize - 3

\* a cursor that stays where it is
SameSlot(cur) == cur

\* "Move to the next slot/day": the next time slot, or the first slot of the
\* next day (weekends are not skipped)
NextSlot(cur) ==
    IF cur.slot_index + 1 >= SimpleTimeSlots
    THEN [current_date |-> cur.current_date + 1, slot_index |-> 0]
    ELSE [current_date |-> cur.current_date, slot_index |-> cur.slot_index + 1]

\* students_taking_course, in dict order
students_taking_course(course_code) ==
    SelectSeq(StudentIds, LAMBDA s : InList(course_code, student_courses[s]))

\* exam_datetime in student_exam_times[student_id] for some student of the
\* course: exam_datetime is a pair (date, time slot), the entries of the
\* list are triples (date, time slot, course code)
SlotConflict(st, course_code) ==
    LET exam_datetime == <<st.current_date, st.slot_index>>
        taking == students_taking_course(course_code)
    IN \E k \in DOMAIN taking :
        \E i \in DOMAIN st.student_exam_times[taking[k]] :
            st.student_exam_times[taking[k]][i] = exam_datetime

\* the while loop of one course, from attempt number attempts on
RECURSIVE WhileNotScheduled(_, _, _)
WhileNotScheduled(st, course_code, attempts) ==
    IF attempts >= SimpleTimeSlots * AttemptDays THEN st
    ELSE LET cur == NextSlot([current_date |-> st.current_date,
                              slot_index |-> st.slot_index])
             moved == [st EXCEPT !.current_date = cur.current_date,
                                 !.slot_index = cur.slot_index]
         IN IF SlotConflict(st, course_code)
            THEN WhileNotScheduled(moved, course_code, attempts + 1)
            ELSE [moved EXCEPT
                    !.schedule = (course_code :>
                                    <<strftime(st.current_date), st.slot_index>>) @@ @,
                    !.student_exam_times =
                        [s \in DOMAIN @ |->
                            IF InList(course_code, student_courses[s])
                            THEN Append(@[s], <<st.current_date, st.slot_index,
                                                course_code>>)
                            ELSE @[s]]]

InitSimple ==
    /\ variant = "simple"
    /\ all_course_codes = [i \in 1..(SimpleTimeSlots + 1) |-> i]
    /\ student_courses \in Rosters(SimpleTimeSlots + 1, SimpleSize)
    /\ start_date = FirstDay
    /\ end_date = FirstDay
    /\ skip_weekends = FALSE
    /\ EXAM_TIME_SLOTS = [i \in 1..SimpleTimeSlots |-> i - 1]
    /\ MIN_DAYS_BETWEEN_EXAMS = 1
    /\ no_same_day_exams = FALSE
    /\ pc = "simple"
    /\ NothingRun
    /\ twin = NoTwin
    /\ course_conflicts = <<>>
    /\ simple = [schedule |-> <<>>,
                 student_exam_times |-> [s \in DOMAIN student_courses |-> <<>>],
                 courses_to_schedule |->
                    UNION {Range(student_courses[s]) : s \in DOMAIN student_courses},
                 current_date |-> start_date,
                 slot_index |-> 0]

\* one iteration of "for course_code in courses_to_schedule": a set is
\* iterated, so any remaining course may come next
SimpleCourse ==
    /\ pc = "simple"
    /\ \E course_code \in simple.courses_to_schedule :
        simple' = [WhileNotScheduled(simple, course_code, 0)
                    EXCEPT !.courses_to_schedule = @ \ {course_code}]
    /\ UNCHANGED <<inputs, pc, twin, course_conflicts, remote, greedy, outputs>>

\* return schedule, student_exam_times
SimpleReturn ==
    /\ pc = "simple"
    /\ simple.courses_to_schedule = {}
    /\ pc' = "simple_returned"
    /\ UNCHANGED <<inputs, extra, remote, greedy, outputs>>

NextSimple ==
    \/ SimpleCourse
    \/ SimpleReturn

SpecSimple == InitSimple /\ [][NextSimple]_vars

(***************************************************************************)
(* C19.  No student sits two exams in one slot of the simple schedule.     *)
(***************************************************************************)
\* C19: in the schedule generate_simple_schedule builds and returns, no two
\* different courses of one student have the same date and time slot, and no
\* student's exam list holds one (date, time slot) twice.
C19_SimpleNoSlotClash ==
    /\ \A s \in DOMAIN student_courses :
        \A c1, c2 \in DOMAIN simple.schedule :
            (c1 # c2 /\ Takes(s, c1) /\ Takes(s, c2)) =>
                simple.schedule[c1] # simple.schedule[c2]
    /\ \A s \in DOMAIN simple.student_exam_times :
        \A i, j \in DOMAIN simple.student_exam_times[s] :
            i # j => <<simple.student_exam_times[s][i][1], simple.student_exam_times[s][i][2]>>
                     # <<simple.student_exam_times[s][j][1], simple.student_exam_times[s][j][2]>>

\* the generator has returned, every course of the students has a slot, and
\* a student sits two courses on one date in different slots
C19_Witness ==
    /\ pc = "simple_returned"
    /\ \E s \in DOMAIN student_courses :
        /\ Range(student_courses[s]) \subseteq DOMAIN simple.schedule
        /\ \E c1, c2 \in Range(student_courses[s]) :
            /\ c1 # c2
            /\ simple.schedule[c1][1] = simple.schedule[c2][1]
            /\ simple.schedule[c1][2] # simple.schedule[c2][2]

(***************************************************************************)
(* C20.  Busiest day of the report.                                        *)
(***************************************************************************)
\* the courses the greedy scheduler committed on a date
CommittedOn(d) == {c \in DOMAIN course_dates : course_dates[c].date = d}

\* the students who take a course committed on a date
ExaminedOn(d) ==
    {s \in DOMAIN student_courses : \E c \in CommittedOn(d) : Takes(s, c)}

\* the largest number of courses committed on one date
MaxDayLoad ==
    Max({Cardinality(CommittedOn(course_dates[c].date)) : c \in DOMAIN course_dates})

\* C20: in the report of a greedy schedule, the busiest day's exam count is
\* the largest number of distinct courses on one date, which is the largest
\* DayLoad and at most MAX_EXAMS_PER_DAY, the date reported is a date with
\* that many courses, and its student count is the number of distinct
\* students with an exam on that date; for an empty schedule the report says
\* N/A.
C20_BusiestDayIsMaxDayLoad ==
    (variant = "root" /\ pc = "done" /\ local_runs = 1 /\ ~IsNone(report)) =>
        LET busiest == Val(report).busiest_day
        IN IF Val(schedule_data).schedule = <<>>
           THEN IsNone(busiest)
           ELSE /\ ~IsNone(busiest)
                /\ Val(busiest).exams = MaxDayLoad
                /\ Val(busiest).exams = Max(Range(exams_per_day))
                /\ Val(busiest).exams <= MAX_EXAMS_PER_DAY
                /\ Val(busiest).exams =
                        Cardinality(CommittedOn(strptime(Val(busiest).date)))
                /\ Val(busiest).students =
                        Cardinality(ExaminedOn(strptime(Val(busiest).date)))

\* what does hold: the count is the number of schedule rows of the reported
\* date, the student count is right for that date, and no rows give N/A
C20_BusiestDayCountsRows ==
    (variant = "root" /\ pc = "done" /\ local_runs = 1 /\ ~IsNone(report)) =>
        LET busiest == Val(report).busiest_day
            rows == Val(schedule_data).schedule
        IN IF rows = <<>>
           THEN IsNone(busiest)
           ELSE /\ ~IsNone(busiest)
                /\ Val(busiest).exams =
                    Cardinality({i \in DOMAIN rows : rows[i].date = Val(busiest).date})
                /\ Val(busiest).students =
                        Cardinality(ExaminedOn(strptime(Val(busiest).date)))

(***************************************************************************)
(* C21.  Scheduling order.                                                 *)
(***************************************************************************)
\* conflict pressure of a course: the shared-student counts of all pairs the
\* course is part of, added up
ConflictPressure(c) ==
    SumSeq([o \in 1..Len(all_course_codes) |->
        IF all_course_codes[o] = c THEN 0
        ELSE Cardinality({s \in DOMAIN student_courses :
                            Takes(s, c) /\ Takes(s, all_course_codes[o])})])

\* C21: the greedy scheduler processes the courses in non-increasing order of
\* conflict pressure, and courses of equal pressure in ascending order of
\* their codes.
C21_OrderedByConflictPressure ==
    \A i, j \in DOMAIN sorted_courses :
        i < j =>
            \/ ConflictPressure(sorted_courses[i]) > ConflictPressure(sorted_courses[j])
            \/ /\ ConflictPressure(sorted_courses[i]) = ConflictPressure(sorted_courses[j])
               /\ sorted_courses[i] < sorted_courses[j]

\* what does hold: the fake script orders by conflict pressure, the root
\* script by the number of enrolled students; ties keep the order of the
\* course list
C21_OrderedByScriptKey ==
    \A i, j \in DOMAIN sorted_courses :
        i < j =>
            LET key(c) == IF variant = "root"
                          THEN Cardinality({s \in DOMAIN student_courses : Takes(s, c)})
                          ELSE ConflictPressure(c)
            IN \/ key(sorted_courses[i]) > key(sorted_courses[j])
               \/ /\ key(sorted_courses[i]) = key(sorted_courses[j])
                  /\ sorted_courses[i] < sorted_courses[j]

(***************************************************************************)
(* C22.  First acceptable slot.                                            *)
(***************************************************************************)
\* a date is closed to a course, told from the committed courses alone: the
\* date holds MAX_EXAMS_PER_DAY courses, or a student of the course has a
\* committed course on the date (where the script applies the same-day
\* rule) or less than the minimum gap away from it
ScanRejected(course, d) ==
    \/ Cardinality(CommittedOn(d)) >= MAX_EXAMS_PER_DAY
    \/ \E s \in DOMAIN student_courses :
        /\ Takes(s, course)
        /\ \E c \in DOMAIN course_dates :
            /\ Takes(s, c)
            /\ \/ /\ course_dates[c].date = d
                  /\ variant = "root" \/ no_same_day_exams
               \/ /\ 0 < Abs(course_dates[c].date - d)
                  /\ Abs(course_dates[c].date - d) < MIN_DAYS_BETWEEN_EXAMS

\* one turn of the course loop, seen with the permutation drawn for it
ScanCommitsFirstAcceptable ==
    (pc = "loop" /\ course_idx' = course_idx + 1) =>
        LET course == sorted_courses[course_idx]
            dates_to_try == twin'.draws[course_idx]
            acceptable == {k \in DOMAIN dates_to_try :
                            ~ScanRejected(course, dates_to_try[k].date)}
        IN IF acceptable = {}
           THEN /\ unscheduled_courses' = Append(unscheduled_courses, course)
                /\ course_dates' = course_dates
                /\ schedule' = schedule
           ELSE LET slot == dates_to_try[Min(acceptable)]
                IN /\ course_dates' = (course :> slot) @@ course_dates
                   /\ unscheduled_courses' = unscheduled_courses
                   /\ \A d \in DOMAIN exams_per_day' :
                        exams_per_day'[d] = Get(exams_per_day, d, 0)
                                            + (IF d = slot.date THEN 1 ELSE 0)

\* C22: at its turn a course is committed to the first slot of its
\* permutation that is not rejected, and to that slot only; it is marked
\* unscheduled only when every slot of the slot space is rejected (the day is
\* at the cap, or an enrolled student has an exam on the date or less than
\* the minimum gap away), so a course with an acceptable slot is scheduled.
C22_FirstAcceptableSlotCommitted == [][ScanCommitsFirstAcceptable]_vars

\* a course was committed to a slot that was not the first of its
\* permutation, the first being rejected
C22_Witness ==
    /\ twin.run = 1
    /\ \E i \in DOMAIN twin.draws :
        /\ sorted_courses[i] \in DOMAIN course_dates
        /\ course_dates[sorted_courses[i]] # twin.draws[i][1]

(***************************************************************************)
(* A run under fair scheduling: generate_schedule_locally is straight-line *)
(* code around one for loop, so once it is called the interpreter keeps    *)
(* moving its control (the position pc and the loop index) until it        *)
(* returns.                                                                *)
(***************************************************************************)
InitGreedy ==
    /\ Init
    /\ Len(all_course_codes) + Cardinality(start_date..end_date)
            + Enrolled(student_courses) <= ReplaySize

control == <<pc, course_idx>>

\* the control of the scheduler moves: into the loop, to the next course, or
\* to the return
SchedulerRuns ==
    /\ pc \in {"local", "loop"}
    /\ pc' \in {"loop", "returned"}
    /\ course_idx' \in 0..(MaxCourses + 1)

SpecGreedyFair == InitGreedy /\ [][Next]_vars /\ WF_control(SchedulerRuns)

(***************************************************************************)
(* C23.  Life of a course: PENDING -> SCHEDULED or UNSCHEDULED.            *)
(***************************************************************************)
Scheduled(c) == c \in DOMAIN course_dates
Unscheduled(c) == InList(c, unscheduled_courses)

\* the course loop of the scheduler has been entered and left
LoopOver == local_runs > 0 /\ available # <<>> /\ pc \notin {"local", "loop"}

\* a step moves no course out of a terminal state and changes no committed slot
TerminalStatesKept ==
    \A c \in Range(all_course_codes) :
        /\ Scheduled(c) =>
            /\ c \in DOMAIN course_dates'
            /\ course_dates'[c] = course_dates[c]
            /\ ~InList(c, unscheduled_courses')
        /\ Unscheduled(c) =>
            /\ InList(c, unscheduled_courses')
            /\ c \notin DOMAIN course_dates'

\* a step of the course loop takes exactly the next course, or leaves the
\* loop when no course is left
LoopAdvances ==
    pc = "loop" =>
        \/ /\ course_idx <= Len(sorted_courses)
           /\ pc' = "loop"
           /\ course_idx' = course_idx + 1
        \/ /\ course_idx = Len(sorted_courses) + 1
           /\ pc' = "returned"

\* C23: the greedy scheduler, once called, returns, each step of its loop
\* taking the next course; no course is ever both scheduled and unscheduled;
\* when the course loop is over every requested course is scheduled or
\* unscheduled (none is pending); and a course that is scheduled or
\* unscheduled stays so, with its committed slot unchanged, in every later
\* step of the run.
C23_CourseStateMachine ==
    /\ (pc = "local") ~> (pc = "returned")
    /\ [][LoopAdvances]_vars
    /\ [](\A c \in Range(all_course_codes) : ~(Scheduled(c) /\ Unscheduled(c)))
    /\ [](LoopOver => \A c \in Range(all_course_codes) : Scheduled(c) \/ Unscheduled(c))
    /\ [][TerminalStatesKept]_vars

\* the scheduler has returned with a course of each terminal state, the
\* scheduled one committed before the unscheduled one was scanned
C23_Witness ==
    /\ GreedyReturned
    /\ DOMAIN course_dates # {}
    /\ unscheduled_courses # <<>>
    /\ \E i, j \in DOMAIN sorted_courses :
        i < j /\ Scheduled(sorted_courses[i]) /\ Unscheduled(sorted_courses[j])

(***************************************************************************)
(* C24.  The slot space.                                                   *)
(***************************************************************************)
\* the usable days in ascending order, each with every time slot of the
\* configuration where the script uses time slots
SlotSpace ==
    LET days == AscSeq(UsableDays)
        per_day == Len(EXAM_TIME_SLOTS)
    IN IF variant = "root"
       THEN [i \in DOMAIN days |-> Slot(days[i], NoTimeSlot)]
       ELSE [k \in 1..(Len(days) * per_day) |->
                Slot(days[((k - 1) \div per_day) + 1],
                     EXAM_TIME_SLOTS[((k - 1) % per_day) + 1])]

Deduplicated(courses) ==
    SelectSeq([i \in DOMAIN courses |->
                IF \E j \in 1..(i - 1) : courses[j] = courses[i] THEN 0 ELSE courses[i]],
              LAMBDA c : c # 0)

\* the enrollment index with every (student, course) record counted once
DeduplicatedIndex == [s \in DOMAIN student_courses |-> Deduplicated(student_courses[s])]

\* C25: repeated (student, course) enrollment records collapse: the index
\* lists each course of a student once, and the analyzer returns the pair
\* counts it returns for the records without their repeats, so no pair is
\* counted twice for one student and no course is paired with itself.
C25_RepeatedRecordsCollapse ==
    pc = "analyzed" =>
        /\ student_courses = DeduplicatedIndex
        /\ Range(course_conflicts) =
                Range(analyze_course_conflicts(variant, DeduplicatedIndex))
        /\ \A i \in DOMAIN course_conflicts :
                course_conflicts[i][1][1] # course_conflicts[i][1][2]

(***************************************************************************)
(* C26.  The verifier's verdict and the rebuilt calendar.                  *)
(***************************************************************************)
\* the calendar build_student_exam_dates_from_schedule makes of the greedy
\* scheduler's schedule list
RebuiltCalendar == build_student_exam_dates_from_schedule(schedule, student_courses)

\* the exam dates a calendar holds for a student
CalendarDates(cal, s) ==
    LET exams == Get(cal, s, <<>>) IN {exams[i].date : i \in DOMAIN exams}

Assignments(data) ==
    IF IsNone(data) \/ "schedule" \notin DOMAIN Val(data) THEN <<>>
    ELSE [i \in DOMAIN Val(data).schedule |->
            <<Val(data).schedule[i].course_code, Val(data).schedule[i].date>>]

\* a step of the verifier or of the export and report
VerifierOrReportStep == pc \in {"generated", "checked"}

\* what one step may write
WritesKept ==
    /\ student_courses' = student_courses
    /\ all_course_codes' = all_course_codes
    /\ (exams_per_day' # exams_per_day \/ student_exam_dates' # student_exam_dates)
            => (pc = "loop" /\ pc' = "loop" /\ course_idx' = course_idx + 1)
    /\ VerifierOrReportStep =>
            /\ calendar' = calendar
            /\ course_map' = course_map
            /\ student_exam_dates' = student_exam_dates
            /\ exams_per_day' = exams_per_day
            /\ course_dates' = course_dates
            /\ schedule' = schedule
            /\ Assignments(schedule_data') = Assignments(schedule_data)

\* C27: the day-load counters and the student calendars are written by the
\* course loop of the greedy scheduler only; a step of the verifier or of the
\* export and report builder leaves the calendars, the course-to-date map and
\* the (course_code, date) assignments of the schedule as they were; and no
\* step of a run changes the enrollment data or the course list.
C27_OnlyGreedyWritesCalendars == [][WritesKept]_vars

\* verifier, export and report have all run on a schedule the greedy
\* scheduler committed, with day loads and calendars filled
C27_Witness ==
    /\ variant = "root"
    /\ pc = "done"
    /\ verifier_runs > 0
    /\ ~IsNone(report)
    /\ ~IsNone(exported)
    /\ Assignments(schedule_data) # <<>>
    /\ \E d \in DOMAIN exams_per_day : exams_per_day[d] > 0
    /\ \E s \in DOMAIN student_exam_dates : student_exam_dates[s] # <<>>

(***************************************************************************)
(* C28.  Balance of the statistics.                                        *)
(***************************************************************************)
\* C28: in the statistics generate_schedule_locally returns, the scheduled
\* and the unscheduled courses add up to the requested ones, and
\* total_courses_scheduled is the number of distinct committed courses.
C28_StatisticsBalance ==
    GreedyReturned =>
        LET statistics == Val(ret[1]).statistics
        IN /\ statistics.total_courses_scheduled + statistics.courses_not_scheduled
                = statistics.total_courses_requested
           /\ statistics.total_courses_scheduled = Cardinality(DOMAIN course_dates)

\* the balance as the fake script, which adds one row per committed course,
\* keeps it
C28_BalanceInFakeScript == variant = "fake" => C28_StatisticsBalance

(***************************************************************************)
(* C29.  Calendars and day loads follow the commits.                       *)
(***************************************************************************)
\* the committed courses the student is enrolled in that sit on the slot
CommittedFor(s, slot) ==
    {c \in DOMAIN course_dates :
        InList(c, student_courses[s]) /\ course_dates[c] = slot}

\* every calendar holds one entry per committed course of its student, and
\* every day counter the number of courses committed on the day
DerivedStateFollowsCommits ==
    local_runs > 0 =>
        /\ \A s \in DOMAIN student_exam_dates : s \in DOMAIN student_courses
        /\ \A s \in DOMAIN student_courses :
            LET exams == Get(student_exam_dates, s, <<>>)
            IN /\ \A i \in DOMAIN exams : CommittedFor(s, exams[i]) # {}
               /\ Len(exams) = Cardinality({c \in DOMAIN course_dates :
                                                InList(c, student_courses[s])})
               /\ \A c \in DOMAIN course_dates :
                    InList(c, student_courses[s]) =>
                        Cardinality({i \in DOMAIN exams : exams[i] = course_dates[c]})
                            = Cardinality(CommittedFor(s, course_dates[c]))
        /\ \A d \in DOMAIN exams_per_day \cup start_date..end_date :
                Get(exams_per_day, d, 0) = Cardinality(CommittedOn(d))

\* a step in which the course of the turn is left unscheduled, every slot
\* having been rejected, keeps all exam dates and all day counts; a step
\* that commits adds one to the count of the committed day only
RejectionsWriteNothing ==
    (pc = "loop" /\ pc' = "loop") =>
        LET course == sorted_courses[course_idx]
        IN /\ \A d \in DOMAIN exams_per_day' :
                Get(exams_per_day', d, 0) =
                    Get(exams_per_day, d, 0) +
                        (IF course \in DOMAIN course_dates' /\ course_dates'[course].date = d
                         THEN 1 ELSE 0)
           /\ DOMAIN exams_per_day \subseteq DOMAIN exams_per_day'
           /\ DOMAIN student_exam_dates \subseteq DOMAIN student_exam_dates'
           /\ \A s \in DOMAIN student_exam_dates' :
                Get(student_exam_dates', s, <<>>) =
                    IF course \in DOMAIN course_dates' /\ InList(course, student_courses[s])
                    THEN Append(Get(student_exam_dates, s, <<>>), course_dates'[course])
                    ELSE Get(student_exam_dates, s, <<>>)

\* C29: at every point of the course loop and after it, each student's
\* calendar holds exactly one date per committed course the student is
\* enrolled in and nothing else, and exams_per_day[d] is the number of
\* courses committed on d; a rejected slot and a course left unscheduled
\* change no exam date of any calendar and no day count.
C29_DerivedStateConsistent ==
    /\ []DerivedStateFollowsCommits
    /\ [][RejectionsWriteNothing]_vars

\* a course has been left unscheduled while a student holds a committed
\* exam; the counter of one day was created by the scan of a rejected slot
\* and is 0, the counter of another day counts a commit
C29_Witness ==
    /\ pc = "loop"
    /\ unscheduled_courses # <<>>
    /\ \E s \in DOMAIN student_exam_dates : student_exam_dates[s] # <<>>
    /\ \E d \in DOMAIN exams_per_day : exams_per_day[d] = 0
    /\ \E d \in DOMAIN exams_per_day : exams_per_day[d] > 0

(***************************************************************************)
(* C30.  Committed dates lie in the slot space.                            *)
(***************************************************************************)
\* C30: every date a course is committed to lies within the window, both
\* ends included, is never a Saturday or Sunday while weekends are skipped,
\* and is the date of the row or rows the schedule lists for the course; a
\* fake commit carries one of the configured time slots.
C30_CommittedDatesInSlotSpace ==
    /\ \A c \in DOMAIN course_dates :
        /\ start_date <= course_dates[c].date
        /\ course_dates[c].date <= end_date
        /\ skip_weekends => weekday(course_dates[c].date) < 5
        /\ course_dates[c].date \in UsableDays
        /\ IF variant = "root" THEN course_dates[c].time_slot = NoTimeSlot
           ELSE InList(course_dates[c].time_slot, EXAM_TIME_SLOTS)
    /\ \A i \in DOMAIN schedule :
        /\ ValidDateText(schedule[i].date)
        /\ schedule[i].course_code \in DOMAIN course_dates
        /\ strptime(schedule[i].date) = course_dates[schedule[i].course_code].date

\* courses are committed in a window that starts on a skipped weekend, on
\* its last day among others
C30_Witness ==
    /\ skip_weekends
    /\ weekday(start_date) >= 5
    /\ \E c \in DOMAIN course_dates : course_dates[c].date = end_date
    /\ schedule # <<>>
    /\ pc = "returned"

====
